---- MODULE Spec2Model ----
(***************************************************************************)
(* RAGService of backend-express/src/services/ragService.js: the in-memory *)
(* vector store, the chunker, the ranking of candidates and the two async  *)
(* operations processDocument and queryDocuments, which suspend at every   *)
(* await and interleave there with the synchronous operations.             *)
(***************************************************************************)
EXTENDS Integers, Sequences, FiniteSets, TLC

VARIABLES
    available,      \* this.available
    chunkSize,      \* this.chunkSize
    chunkOverlap,   \* this.chunkOverlap
    topK,           \* this.topK
    vectorStore,    \* this.vectorStore: a Map, as its entries in insertion order
    calls,          \* the processDocument calls in flight, one per call slot
    query,          \* the queryDocuments call in flight
    lastReturn,     \* what the operation that returned last gave its caller
    nOps,           \* number of operations started so far
    arg,            \* argument of the pure function under test
    out             \* its result

vars == <<available, chunkSize, chunkOverlap, topK, vectorStore, calls, query,
          lastReturn, nOps, arg, out>>

----------------------------------------------------------------------------
(* Bounds of the model *)

MaxOps == 3
MaxIterations == 8
MaxTextLen == 7
MaxChunkSize == 4

(* Program constants *)

DefaultChunkSize == 1000
DefaultChunkOverlap == 200
DefaultTopK == 5
ExcerptLen == 200

DocIds == {"d1", "d2"}
Metas == {"m1"}
Filenames == {"a.txt"}
\* What the provider can return for a chunk, and for the question.
Embeddings == {<<1, 0>>, <<0, 1>>}
QuestionEmbeddings == {<<1, 0>>}
Calls == {1, 2}
\* The documentIds argument of a query: null (or undefined), or a list of ids.
NullIds == [null |-> TRUE, ids |-> << >>]
Ids(list) == [null |-> FALSE, ids |-> list]
\* The document_ids a request can carry.
DocumentIdLists == {Ids(<< >>), Ids(<<"d1">>), Ids(<<"d2", "d1">>)}
QueryTopKs == {0, 1}
Answers == {"answer"}

Whitespace == {" "}

\* What extractText can hand back to processDocument.
ExtractThrows == <<"throws">>
Texts == {<< >>, <<" ">>, <<"a", "b">>, <<"a", "b", "a">>}

\* The configurations the environment can set (CHUNK_SIZE, CHUNK_OVERLAP).
Configs == {<<3, 1>>, <<2, 2>>, <<1, 2>>}

Min(a, b) == IF a < b THEN a ELSE b
Max(a, b) == IF a > b THEN a ELSE b

----------------------------------------------------------------------------
(* The JavaScript Map holding the store *)

MapHas(m, k) == \E j \in 1..Len(m) : m[j].key = k

MapIndex(m, k) == CHOOSE j \in 1..Len(m) : m[j].key = k

MapGet(m, k) == m[MapIndex(m, k)].value

\* MapSet, were set to add v to the list the key already has
MapSet_Merge(m, k, v) ==
    IF MapHas(m, k)
    THEN [m EXCEPT ![MapIndex(m, k)] = [key |-> k, value |-> m[MapIndex(m, k)].value \o v]]
    ELSE Append(m, [key |-> k, value |-> v])

MapSet(m, k, v) ==
    IF MapHas(m, k)
    THEN [m EXCEPT ![MapIndex(m, k)] = [key |-> k, value |-> v]]
    ELSE Append(m, [key |-> k, value |-> v])

MapDelete(m, k) ==
    IF MapHas(m, k)
    THEN LET j == MapIndex(m, k)
         IN  SubSeq(m, 1, j - 1) \o SubSeq(m, j + 1, Len(m))
    ELSE m

MapSize(m) == Len(m)

----------------------------------------------------------------------------
(* The chunker *)

\* String.prototype.slice(start, end)
JsSlice(text, start, end) ==
    LET len  == Len(text)
        from == IF start < 0 THEN Max(len + start, 0) ELSE Min(start, len)
        to   == IF end < 0 THEN Max(len + end, 0) ELSE Min(end, len)
    IN  IF from < to THEN SubSeq(text, from + 1, to) ELSE << >>

\* The while loop of splitIntoChunks, followed for at most `fuel` iterations:
\* returned is FALSE when the loop is still running after that many.
RECURSIVE SplitLoop(_, _, _, _, _, _)
SplitLoop(text, size, overlap, start, chunks, fuel) ==
    IF ~(start < Len(text))
    THEN [chunks |-> chunks, returned |-> TRUE]
    ELSE IF fuel = 0
    THEN [chunks |-> chunks, returned |-> FALSE]
    ELSE LET end    == Min(start + size, Len(text))
             pushed == Append(chunks, JsSlice(text, start, end))
             next   == start + (size - overlap)
         IN  IF next >= Len(text)
             THEN [chunks |-> pushed, returned |-> TRUE]
             ELSE SplitLoop(text, size, overlap, next, pushed, fuel - 1)

splitIntoChunks(text, size, overlap) ==
    SplitLoop(text, size, overlap, 0, << >>, MaxIterations)

\* text.trim().length === 0
IsBlank(text) == \A j \in 1..Len(text) : text[j] \in Whitespace

----------------------------------------------------------------------------
(* Results handed to the callers *)

NoReturn == [op |-> "none"]

IngestFailure(c, blobId, error, embedded) ==
    [op |-> "processDocument", call |-> c, blobId |-> blobId,
     success |-> FALSE, chunksCreated |-> 0, textLength |-> 0,
     error |-> error, embedded |-> embedded]

\* replaced tells whether the put found an entry for blobId
IngestSuccess(c, blobId, chunks, text, replaced) ==
    [op |-> "processDocument", call |-> c, blobId |-> blobId,
     success |-> TRUE, chunksCreated |-> Len(chunks), textLength |-> Len(text),
     error |-> "", embedded |-> Len(chunks), replaced |-> replaced]

\* Call slots are interchangeable: a new call takes the first free one.
FreeSlot(c) ==
    /\ calls[c].pc = "idle"
    /\ \A c2 \in Calls : calls[c2].pc = "idle" => ~(c2 < c)

IdleCall ==
    [pc |-> "idle", blobId |-> "", filename |-> "", metadata |-> "",
     text |-> << >>, chunks |-> << >>, i |-> 0, documentChunks |-> << >>]

\* A synchronous loop that does not end keeps the event loop: nothing else runs.
Blocked == \E c \in Calls : calls[c].pc = "splitting"

----------------------------------------------------------------------------
(* processDocument *)

\* ProcessDocument, were the availability check missing
ProcessDocument_Unchecked(c, blobId, filename, metadata) ==
    /\ ~Blocked
    /\ FreeSlot(c)
    /\ nOps < MaxOps
    /\ nOps' = nOps + 1
    /\ calls' = [calls EXCEPT ![c] =
           [IdleCall EXCEPT !.pc = "extract", !.blobId = blobId,
                            !.filename = filename, !.metadata = metadata]]
    /\ UNCHANGED <<available, chunkSize, chunkOverlap, topK, vectorStore, query,
                   lastReturn, arg, out>>

\* lines 155-168: the availability check, then the await of extractText
ProcessDocument(c, blobId, filename, metadata) ==
    /\ ~Blocked
    /\ FreeSlot(c)
    /\ nOps < MaxOps
    /\ nOps' = nOps + 1
    /\ IF ~available
       THEN /\ lastReturn' = IngestFailure(c, blobId, "RAG Service not available", 0)
            /\ UNCHANGED calls
       ELSE /\ calls' = [calls EXCEPT ![c] =
                   [IdleCall EXCEPT !.pc = "extract", !.blobId = blobId,
                                    !.filename = filename, !.metadata = metadata]]
            /\ UNCHANGED lastReturn
    /\ UNCHANGED <<available, chunkSize, chunkOverlap, topK, vectorStore, query, arg, out>>

\* Extracted, were the call to drop the document's stored list before the checks
Extracted_ClearsFirst(c, extracted) ==
    /\ ~Blocked
    /\ calls[c].pc = "extract"
    /\ vectorStore' = MapDelete(vectorStore, calls[c].blobId)
    /\ IF extracted = ExtractThrows \/ Len(extracted) = 0 \/ IsBlank(extracted)
       THEN /\ lastReturn' = IngestFailure(c, calls[c].blobId, "No text content extracted", 0)
            /\ calls' = [calls EXCEPT ![c] = IdleCall]
       ELSE /\ calls' = [calls EXCEPT ![c].pc = "embed",
                                      ![c].text = extracted,
                                      ![c].chunks = splitIntoChunks(extracted, chunkSize,
                                                                    chunkOverlap).chunks,
                                      ![c].i = 0,
                                      ![c].documentChunks = << >>]
            /\ UNCHANGED lastReturn
    /\ UNCHANGED <<available, chunkSize, chunkOverlap, topK, query, nOps, arg, out>>

\* Extracted, were a text of whitespace let through
Extracted_KeepsBlank(c, extracted) ==
    /\ ~Blocked
    /\ calls[c].pc = "extract"
    /\ IF extracted = ExtractThrows
       THEN /\ lastReturn' = IngestFailure(c, calls[c].blobId, "extraction failed", 0)
            /\ calls' = [calls EXCEPT ![c] = IdleCall]
            /\ UNCHANGED vectorStore
       ELSE LET split == splitIntoChunks(extracted, chunkSize, chunkOverlap)
            IN  IF ~split.returned
                THEN /\ calls' = [calls EXCEPT ![c].pc = "splitting",
                                               ![c].text = extracted]
                     /\ UNCHANGED <<lastReturn, vectorStore>>
                ELSE IF Len(split.chunks) = 0
                THEN /\ vectorStore' = MapSet(vectorStore, calls[c].blobId, << >>)
                     /\ lastReturn' = IngestSuccess(c, calls[c].blobId, << >>, extracted,
                                                   MapHas(vectorStore, calls[c].blobId))
                     /\ calls' = [calls EXCEPT ![c] = IdleCall]
                ELSE /\ calls' = [calls EXCEPT ![c].pc = "embed",
                                               ![c].text = extracted,
                                               ![c].chunks = split.chunks,
                                               ![c].i = 0,
                                               ![c].documentChunks = << >>]
                     /\ UNCHANGED <<lastReturn, vectorStore>>
    /\ UNCHANGED <<available, chunkSize, chunkOverlap, topK, query, nOps, arg, out>>

\* lines 168-187: extractText has settled; the blank check, the split and the
\* first getEmbedding call
Extracted(c, extracted) ==
    /\ ~Blocked
    /\ calls[c].pc = "extract"
    /\ IF extracted = ExtractThrows
       THEN /\ lastReturn' = IngestFailure(c, calls[c].blobId, "extraction failed", 0)
            /\ calls' = [calls EXCEPT ![c] = IdleCall]
            /\ UNCHANGED vectorStore
       ELSE IF Len(extracted) = 0 \/ IsBlank(extracted)
       THEN /\ lastReturn' = IngestFailure(c, calls[c].blobId, "No text content extracted", 0)
            /\ calls' = [calls EXCEPT ![c] = IdleCall]
            /\ UNCHANGED vectorStore
       ELSE LET split == splitIntoChunks(extracted, chunkSize, chunkOverlap)
            IN  IF ~split.returned
                THEN /\ calls' = [calls EXCEPT ![c].pc = "splitting",
                                               ![c].text = extracted]
                     /\ UNCHANGED <<lastReturn, vectorStore>>
                ELSE IF Len(split.chunks) = 0
                THEN /\ vectorStore' = MapSet(vectorStore, calls[c].blobId, << >>)
                     /\ lastReturn' = IngestSuccess(c, calls[c].blobId, << >>, extracted,
                                                   MapHas(vectorStore, calls[c].blobId))
                     /\ calls' = [calls EXCEPT ![c] = IdleCall]
                ELSE /\ calls' = [calls EXCEPT ![c].pc = "embed",
                                               ![c].text = extracted,
                                               ![c].chunks = split.chunks,
                                               ![c].i = 0,
                                               ![c].documentChunks = << >>]
                     /\ UNCHANGED <<lastReturn, vectorStore>>
    /\ UNCHANGED <<available, chunkSize, chunkOverlap, topK, query, nOps, arg, out>>

\* ChunkRecord, were the chunks numbered from 1
ChunkRecord_OneBased(call, embedding) ==
    [chunkIndex |-> call.i + 1,
     text       |-> call.chunks[call.i + 1],
     embedding  |-> embedding,
     metadata   |-> [metadata |-> call.metadata, filename |-> call.filename,
                     blobId |-> call.blobId]]

\* lines 189-198: the record pushed for chunk i
ChunkRecord(call, embedding) ==
    [chunkIndex |-> call.i,
     text       |-> call.chunks[call.i + 1],
     embedding  |-> embedding,
     metadata   |-> [metadata |-> call.metadata, filename |-> call.filename,
                     blobId |-> call.blobId]]

\* Embedded, were the list put into the store after every push
Embedded_PutsEveryChunk(c, embedding) ==
    /\ ~Blocked
    /\ calls[c].pc = "embed"
    /\ LET call   == calls[c]
           pushed == Append(call.documentChunks, ChunkRecord(call, embedding))
       IN  /\ vectorStore' = MapSet(vectorStore, call.blobId, pushed)
           /\ IF call.i + 1 < Len(call.chunks)
              THEN /\ calls' = [calls EXCEPT ![c].i = call.i + 1,
                                             ![c].documentChunks = pushed]
                   /\ UNCHANGED lastReturn
              ELSE /\ lastReturn' = IngestSuccess(c, call.blobId, call.chunks, call.text,
                                                  MapHas(vectorStore, call.blobId))
                   /\ calls' = [calls EXCEPT ![c] = IdleCall]
    /\ UNCHANGED <<available, chunkSize, chunkOverlap, topK, query, nOps, arg, out>>

\* lines 187-211: getEmbedding for chunk i has resolved: push the record, then
\* either await the next chunk's embedding or store the list and return
Embedded(c, embedding) ==
    /\ ~Blocked
    /\ calls[c].pc = "embed"
    /\ LET call   == calls[c]
           pushed == Append(call.documentChunks, ChunkRecord(call, embedding))
       IN  IF call.i + 1 < Len(call.chunks)
           THEN /\ calls' = [calls EXCEPT ![c].i = call.i + 1,
                                          ![c].documentChunks = pushed]
                /\ UNCHANGED <<vectorStore, lastReturn>>
           ELSE /\ vectorStore' = MapSet(vectorStore, call.blobId, pushed)
                /\ lastReturn' = IngestSuccess(c, call.blobId, call.chunks, call.text,
                                              MapHas(vectorStore, call.blobId))
                /\ calls' = [calls EXCEPT ![c] = IdleCall]
    /\ UNCHANGED <<available, chunkSize, chunkOverlap, topK, query, nOps, arg, out>>

\* EmbeddingFailed, were the catch block to store the chunks embedded so far
EmbeddingFailed_KeepsPartial(c) ==
    /\ ~Blocked
    /\ calls[c].pc = "embed"
    /\ vectorStore' = MapSet(vectorStore, calls[c].blobId, calls[c].documentChunks)
    /\ lastReturn' = IngestFailure(c, calls[c].blobId, "embedding failed", calls[c].i)
    /\ calls' = [calls EXCEPT ![c] = IdleCall]
    /\ UNCHANGED <<available, chunkSize, chunkOverlap, topK, query, nOps, arg, out>>

\* lines 187, 212-221: getEmbedding for chunk i has rejected
EmbeddingFailed(c) ==
    /\ ~Blocked
    /\ calls[c].pc = "embed"
    /\ lastReturn' = IngestFailure(c, calls[c].blobId, "embedding failed", calls[c].i)
    /\ calls' = [calls EXCEPT ![c] = IdleCall]
    /\ UNCHANGED <<available, chunkSize, chunkOverlap, topK, vectorStore, query, nOps, arg, out>>

----------------------------------------------------------------------------
(* The synchronous maintenance operations *)

\* deleteDocument, were the chunks counted after the entry is deleted
deleteDocument_CountsAfter(blobId) ==
    /\ ~Blocked
    /\ nOps < MaxOps
    /\ nOps' = nOps + 1
    /\ vectorStore' = MapDelete(vectorStore, blobId)
    /\ lastReturn' = [op |-> "deleteDocument", blobId |-> blobId, success |-> TRUE,
                      deletedChunks |-> IF MapHas(vectorStore', blobId)
                                        THEN Len(MapGet(vectorStore', blobId)) ELSE 0]
    /\ UNCHANGED <<available, chunkSize, chunkOverlap, topK, calls, query, arg, out>>

deleteDocument(blobId) ==
    /\ ~Blocked
    /\ nOps < MaxOps
    /\ nOps' = nOps + 1
    /\ LET deletedChunks == IF MapHas(vectorStore, blobId)
                            THEN Len(MapGet(vectorStore, blobId)) ELSE 0
       IN  /\ vectorStore' = MapDelete(vectorStore, blobId)
           /\ lastReturn' = [op |-> "deleteDocument", blobId |-> blobId,
                             success |-> TRUE, deletedChunks |-> deletedChunks]
    /\ UNCHANGED <<available, chunkSize, chunkOverlap, topK, calls, query, arg, out>>

DocumentStats(store, blobId) ==
    [blobId      |-> blobId,
     totalChunks |-> IF MapHas(store, blobId) THEN Len(MapGet(store, blobId)) ELSE 0,
     exists      |-> MapHas(store, blobId)]

getDocumentStats(blobId) ==
    /\ ~Blocked
    /\ nOps < MaxOps
    /\ nOps' = nOps + 1
    /\ lastReturn' = [op |-> "getDocumentStats", stats |-> DocumentStats(vectorStore, blobId)]
    /\ UNCHANGED <<available, chunkSize, chunkOverlap, topK, vectorStore, calls, query, arg, out>>

RECURSIVE SumChunks(_)
SumChunks(m) ==
    IF Len(m) = 0 THEN 0 ELSE Len(m[1].value) + SumChunks(Tail(m))

StoreStats(store) ==
    [totalDocuments |-> MapSize(store), totalChunks |-> SumChunks(store)]

getStoreStats ==
    /\ ~Blocked
    /\ nOps < MaxOps
    /\ nOps' = nOps + 1
    /\ lastReturn' = [op |-> "getStoreStats", stats |-> StoreStats(vectorStore)]
    /\ UNCHANGED <<available, chunkSize, chunkOverlap, topK, vectorStore, calls, query, arg, out>>

----------------------------------------------------------------------------
(* The retriever *)

\* The value JavaScript gives 0/0 and arithmetic on undefined; no score equals it.
NaN == 1000000

RECURSIVE DotUpTo(_, _, _)
DotUpTo(a, b, n) ==
    IF n = 0 THEN 0 ELSE DotUpTo(a, b, n - 1) + a[n] * b[n]

\* Math.sqrt on the sums of squares the model's vectors have
ISqrt(n) == CHOOSE r \in 0..n : r * r = n

\* lines 133-145; the score is in hundredths (0.9 is 90). The loop runs over
\* a's indices: a b that is shorter gives undefined * number = NaN.
cosineSimilarity(a, b) ==
    IF Len(b) < Len(a) THEN NaN
    ELSE LET dotProduct == DotUpTo(a, b, Len(a))
             normA      == DotUpTo(a, a, Len(a))
             normB      == DotUpTo(b, b, Len(a))
             den        == ISqrt(normA) * ISqrt(normB)
         IN  IF den = 0 THEN NaN
             ELSE CHOOSE s \in -100..100 : s * den = 100 * dotProduct

\* Compare, were the operands of the subtraction exchanged
Compare_Ascending(a, b) ==
    IF a.score = NaN \/ b.score = NaN THEN 0 ELSE a.score - b.score

\* line 274: the comparator (a, b) => b.score - a.score; a NaN result counts as 0
Compare(a, b) ==
    IF a.score = NaN \/ b.score = NaN THEN 0 ELSE b.score - a.score

\* x goes behind every element that does not have to follow it
RECURSIVE InsertSorted(_, _)
InsertSorted(sorted, x) ==
    IF Len(sorted) = 0 THEN <<x>>
    ELSE IF Compare(x, Head(sorted)) < 0
    THEN <<x>> \o sorted
    ELSE <<Head(sorted)>> \o InsertSorted(Tail(sorted), x)

\* Array.prototype.sort with Compare: a stable sort
RECURSIVE SortByScore(_)
SortByScore(scoredChunks) ==
    IF Len(scoredChunks) = 0 THEN << >>
    ELSE InsertSorted(SortByScore(SubSeq(scoredChunks, 1, Len(scoredChunks) - 1)),
                      scoredChunks[Len(scoredChunks)])

\* lines 273-275: sort by score, then slice(0, topK)
TopChunks(scoredChunks, k) ==
    LET sorted == SortByScore(scoredChunks)
    IN  SubSeq(sorted, 1, Min(Max(k, 0), Len(sorted)))

\* lines 244-257: the candidates, from the listed documents or from all
RECURSIVE GatherListed(_, _)
GatherListed(store, documentIds) ==
    IF Len(documentIds) = 0 THEN << >>
    ELSE (IF MapHas(store, Head(documentIds))
          THEN MapGet(store, Head(documentIds)) ELSE << >>)
         \o GatherListed(store, Tail(documentIds))

RECURSIVE GatherAll(_)
GatherAll(store) ==
    IF Len(store) = 0 THEN << >> ELSE store[1].value \o GatherAll(Tail(store))

\* the documentIds let the query search document d
Searched(documentIds, d) ==
    documentIds.null \/ Len(documentIds.ids) = 0
        \/ \E j \in 1..Len(documentIds.ids) : documentIds.ids[j] = d

\* AllChunks, were the filter never looked at
AllChunks_IgnoresFilter(store, documentIds) ==
    GatherAll(store)

\* line 244: documentIds && documentIds.length > 0
AllChunks(store, documentIds) ==
    IF ~documentIds.null /\ Len(documentIds.ids) > 0
    THEN GatherListed(store, documentIds.ids)
    ELSE GatherAll(store)

\* lines 268-271
ScoredChunks(allChunks, questionEmbedding) ==
    [j \in 1..Len(allChunks) |->
        [chunkIndex |-> allChunks[j].chunkIndex,
         text       |-> allChunks[j].text,
         embedding  |-> allChunks[j].embedding,
         metadata   |-> allChunks[j].metadata,
         score      |-> cosineSimilarity(questionEmbedding, allChunks[j].embedding)]]

\* Excerpt, were the ellipsis added to every excerpt
Excerpt_AlwaysEllipsis(text) ==
    SubSeq(text, 1, Min(Len(text), ExcerptLen)) \o <<".", ".", ".">>

\* line 310
Excerpt(text) ==
    IF Len(text) > ExcerptLen
    THEN SubSeq(text, 1, ExcerptLen) \o <<".", ".", ".">>
    ELSE text

\* lines 308-313
Sources(topChunks) ==
    [j \in 1..Len(topChunks) |->
        [blobId     |-> topChunks[j].metadata.blobId,
         excerpt    |-> Excerpt(topChunks[j].text),
         chunkIndex |-> topChunks[j].chunkIndex,
         score      |-> topChunks[j].score]]

\* lines 278-280: the context of the prompt, one labelled text per top chunk
Context(topChunks) ==
    [j \in 1..Len(topChunks) |-> [label |-> j, text |-> topChunks[j].text]]

\* The frame of the queryDocuments call: its parameters and its locals.
IdleQuery ==
    [pc |-> "idle", documentIds |-> NullIds, topK |-> 0, questionEmbedding |-> << >>,
     allChunks |-> << >>, topChunks |-> << >>]

NoDocumentsAnswer ==
    "I don't have any documents to search. Please upload some documents first."

QueryThrew(error) == [op |-> "queryDocuments", threw |-> TRUE, error |-> error]

\* lines 231-239: the availability check, the default of topK, then the await
\* of the question's embedding. A topK of 0 stands for null and undefined.
queryDocuments(documentIds, k) ==
    /\ ~Blocked
    /\ query.pc = "idle"
    /\ nOps < MaxOps
    /\ nOps' = nOps + 1
    /\ IF ~available
       THEN /\ lastReturn' = QueryThrew("RAG Service not available")
            /\ UNCHANGED query
       ELSE /\ query' = [IdleQuery EXCEPT !.pc = "embed", !.documentIds = documentIds,
                                          !.topK = IF k = 0 THEN topK ELSE k]
            /\ UNCHANGED lastReturn
    /\ UNCHANGED <<available, chunkSize, chunkOverlap, topK, vectorStore, calls, arg, out>>

\* QuestionEmbedded, were the check for no candidates missing
QuestionEmbedded_CompletesAnyway(questionEmbedding) ==
    /\ ~Blocked
    /\ query.pc = "embed"
    /\ LET allChunks == AllChunks(vectorStore, query.documentIds)
       IN  query' = [query EXCEPT !.pc = "complete",
                        !.questionEmbedding = questionEmbedding,
                        !.allChunks = allChunks,
                        !.topChunks = TopChunks(ScoredChunks(allChunks, questionEmbedding),
                                                query.topK)]
    /\ UNCHANGED <<available, chunkSize, chunkOverlap, topK, vectorStore, calls,
                   lastReturn, nOps, arg, out>>

\* QuestionEmbedded, were the score written into the stored chunks
QuestionEmbedded_ScoresInPlace(questionEmbedding) ==
    /\ ~Blocked
    /\ query.pc = "embed"
    /\ LET allChunks == AllChunks(vectorStore, query.documentIds)
       IN  IF Len(allChunks) = 0
           THEN /\ lastReturn' = [op |-> "queryDocuments", threw |-> FALSE,
                                  answer |-> NoDocumentsAnswer, sources |-> << >>]
                /\ query' = IdleQuery
                /\ UNCHANGED vectorStore
           ELSE /\ query' = [query EXCEPT !.pc = "complete",
                                !.questionEmbedding = questionEmbedding,
                                !.allChunks = allChunks,
                                !.topChunks = TopChunks(ScoredChunks(allChunks, questionEmbedding),
                                                        query.topK)]
                /\ vectorStore' =
                       [j \in 1..Len(vectorStore) |->
                           [key   |-> vectorStore[j].key,
                            value |-> IF Searched(query.documentIds, vectorStore[j].key)
                                      THEN ScoredChunks(vectorStore[j].value, questionEmbedding)
                                      ELSE vectorStore[j].value]]
                /\ UNCHANGED lastReturn
    /\ UNCHANGED <<available, chunkSize, chunkOverlap, topK, calls, nOps, arg, out>>

\* lines 239-303: the question's embedding has resolved: gather, score, rank,
\* build the prompt and await the completion. The call is in "complete" exactly
\* while its completion request is with the provider.
QuestionEmbedded(questionEmbedding) ==
    /\ ~Blocked
    /\ query.pc = "embed"
    /\ LET allChunks == AllChunks(vectorStore, query.documentIds)
       IN  IF Len(allChunks) = 0
           THEN /\ lastReturn' = [op |-> "queryDocuments", threw |-> FALSE,
                                  answer |-> NoDocumentsAnswer, sources |-> << >>]
                /\ query' = IdleQuery
           ELSE /\ query' = [query EXCEPT !.pc = "complete",
                                !.questionEmbedding = questionEmbedding,
                                !.allChunks = allChunks,
                                !.topChunks = TopChunks(ScoredChunks(allChunks, questionEmbedding),
                                                        query.topK)]
                /\ UNCHANGED lastReturn
    /\ UNCHANGED <<available, chunkSize, chunkOverlap, topK, vectorStore, calls, nOps, arg, out>>

\* line 239: getEmbedding(question) has rejected
QuestionEmbeddingFailed ==
    /\ ~Blocked
    /\ query.pc = "embed"
    /\ lastReturn' = QueryThrew("embedding failed")
    /\ query' = IdleQuery
    /\ UNCHANGED <<available, chunkSize, chunkOverlap, topK, vectorStore, calls, nOps, arg, out>>

\* lines 295-319: the completion has resolved
Completed(answer) ==
    /\ ~Blocked
    /\ query.pc = "complete"
    /\ lastReturn' = [op |-> "queryDocuments", threw |-> FALSE,
                      answer |-> answer, sources |-> Sources(query.topChunks)]
    /\ query' = IdleQuery
    /\ UNCHANGED <<available, chunkSize, chunkOverlap, topK, vectorStore, calls, nOps, arg, out>>

\* line 295: the completion has rejected
CompletionFailed ==
    /\ ~Blocked
    /\ query.pc = "complete"
    /\ lastReturn' = QueryThrew("completion failed")
    /\ query' = IdleQuery
    /\ UNCHANGED <<available, chunkSize, chunkOverlap, topK, vectorStore, calls, nOps, arg, out>>

----------------------------------------------------------------------------
(* The service *)

NoArg == [fn |-> "none"]

Init ==
    /\ available \in BOOLEAN
    /\ \E cfg \in Configs : chunkSize = cfg[1] /\ chunkOverlap = cfg[2]
    /\ topK = DefaultTopK
    /\ vectorStore = << >>
    /\ calls = [c \in Calls |-> IdleCall]
    /\ query = IdleQuery
    /\ lastReturn = NoReturn
    /\ nOps = 0
    /\ arg = NoArg
    /\ out = NoArg

Next ==
    \/ \E c \in Calls, d \in DocIds, f \in Filenames, m \in Metas :
           ProcessDocument(c, d, f, m)
    \/ \E c \in Calls, t \in Texts \cup {ExtractThrows} : Extracted(c, t)
    \/ \E c \in Calls, e \in Embeddings : Embedded(c, e)
    \/ \E c \in Calls : EmbeddingFailed(c)
    \/ \E d \in DocIds : deleteDocument(d)
    \/ \E d \in DocIds : getDocumentStats(d)
    \/ getStoreStats
    \/ \E ids \in DocumentIdLists, k \in QueryTopKs : queryDocuments(ids, k)
    \/ \E e \in QuestionEmbeddings : QuestionEmbedded(e)
    \/ QuestionEmbeddingFailed
    \/ \E a \in Answers : Completed(a)
    \/ CompletionFailed

Spec == Init /\ [][Next]_vars

----------------------------------------------------------------------------
(* Steps of one processDocument call *)

IngestStep(c) ==
    \/ \E d \in DocIds, f \in Filenames, m \in Metas : ProcessDocument(c, d, f, m)
    \/ \E t \in Texts \cup {ExtractThrows} : Extracted(c, t)
    \/ \E e \in Embeddings : Embedded(c, e)
    \/ EmbeddingFailed(c)

\* the step on which call c returns success
SuccessReturn(c) ==
    /\ calls[c].pc \in {"extract", "embed"}
    /\ calls'[c].pc = "idle"
    /\ lastReturn'.op = "processDocument"
    /\ lastReturn'.call = c
    /\ lastReturn'.success

\* the chunk list one ingestion of a text builds for blobId
FullChunkList(blobId, list) ==
    \E t \in Texts, f \in Filenames, m \in Metas :
        /\ Len(t) > 0
        /\ ~IsBlank(t)
        /\ LET cs == splitIntoChunks(t, chunkSize, chunkOverlap).chunks
           IN  /\ Len(list) = Len(cs)
               /\ Len(list) > 0
               /\ \A n \in 1..Len(list) :
                     /\ list[n].chunkIndex = n - 1
                     /\ list[n].text = cs[n]
                     /\ list[n].embedding \in Embeddings
                     /\ list[n].metadata = [metadata |-> m, filename |-> f, blobId |-> blobId]

StoreHoldsFullLists ==
    \A j \in 1..Len(vectorStore) : FullChunkList(vectorStore[j].key, vectorStore[j].value)

\* a step of a call that changes the store is the call's last step, taken when
\* the embedding of its last chunk has resolved, and it returns success
WritesOnceAtTheEnd ==
    \A c \in Calls :
        vectorStore' # vectorStore /\ IngestStep(c) =>
            /\ calls[c].pc = "embed"
            /\ Len(calls[c].documentChunks) = Len(calls[c].chunks) - 1
            /\ calls[c].i = Len(calls[c].chunks) - 1
            /\ SuccessReturn(c)
            /\ MapHas(vectorStore', calls[c].blobId)
            /\ SubSeq(MapGet(vectorStore', calls[c].blobId), 1, calls[c].i)
                   = calls[c].documentChunks

\* C1: in every reachable state, under every interleaving of processDocument,
\* deleteDocument and queryDocuments, the value stored for a document id is the
\* full chunk list of one ingestion; a call writes the store only on its last
\* step, after the embedding of every chunk has succeeded.
C1_CompleteListsOnly == []StoreHoldsFullLists /\ [][WritesOnceAtTheEnd]_vars

\* a stored two-chunk document is being ingested again, one chunk embedded so far
C1_Witness ==
    \E c \in Calls :
        /\ calls[c].pc = "embed"
        /\ calls[c].i >= 1
        /\ MapHas(vectorStore, calls[c].blobId)
        /\ Len(MapGet(vectorStore, calls[c].blobId)) = 2

\* C2 as stated: when the embedding call fails for a chunk of
\* processDocument(d, ...), the store holds zero chunks for d as the call
\* returns, and the result has success = false and chunksCreated = 0.
C2_ZeroChunksAfterFailure ==
    [][\A c \in Calls :
          EmbeddingFailed(c) =>
              /\ DocumentStats(vectorStore', calls[c].blobId)
                     = [blobId |-> calls[c].blobId, totalChunks |-> 0, exists |-> FALSE]
              /\ lastReturn'.success = FALSE
              /\ lastReturn'.chunksCreated = 0]_vars

\* C2 as amended: when the embedding call fails for a chunk of
\* processDocument(d, ...), the call has written nothing: the store is as it was
\* before the failure, so it holds zero chunks for d when d was not stored then,
\* and the result has success = false and chunksCreated = 0.
C2_NoWriteOnEmbeddingFailure ==
    [][\A c \in Calls :
          EmbeddingFailed(c) =>
              /\ vectorStore' = vectorStore
              /\ ~MapHas(vectorStore, calls[c].blobId) =>
                     DocumentStats(vectorStore', calls[c].blobId)
                         = [blobId |-> calls[c].blobId, totalChunks |-> 0, exists |-> FALSE]
              /\ lastReturn'.op = "processDocument"
              /\ lastReturn'.blobId = calls[c].blobId
              /\ lastReturn'.success = FALSE
              /\ lastReturn'.chunksCreated = 0]_vars

\* the embedding of the second chunk has failed and the document is not stored
C2_Witness ==
    /\ lastReturn.op = "processDocument"
    /\ lastReturn.error = "embedding failed"
    /\ lastReturn.embedded >= 1
    /\ ~MapHas(vectorStore, lastReturn.blobId)

\* C3: a step of a processDocument call that changes the store is the call's
\* successful return: every other step leaves the store unchanged, so a call that returns success = false (service
\* not available, blank text, failed embedding) with no other operation in
\* between leaves the store as it was when the call started.
C3_FailureLeavesStore ==
    [][\A c \in Calls :
          vectorStore' # vectorStore /\ IngestStep(c) => SuccessReturn(c)]_vars

\* a re-ingestion of a stored document has failed on blank text
C3_Witness ==
    /\ lastReturn.op = "processDocument"
    /\ lastReturn.error = "No text content extracted"
    /\ MapHas(vectorStore, lastReturn.blobId)

\* C4: when processDocument(d, ...) succeeds the store holds for d exactly that
\* call's chunk list (length, texts, embeddings, indices 0..n-1); when d was
\* stored before, nothing of the earlier list remains and the number of
\* documents is unchanged; no other document's entry changes.
C4_SecondIngestionReplaces ==
    [][\A c \in Calls :
          SuccessReturn(c) =>
              LET d      == calls[c].blobId
                  chunks == calls[c].chunks
                  stored == MapGet(vectorStore', d)
              IN  /\ MapHas(vectorStore', d)
                  /\ Len(stored) = Len(chunks)
                  /\ Len(stored) = lastReturn'.chunksCreated
                  /\ \A n \in 1..Len(stored) :
                        /\ stored[n].chunkIndex = n - 1
                        /\ stored[n].text = chunks[n]
                        /\ stored[n].metadata.blobId = d
                        /\ stored[n].embedding \in Embeddings
                        /\ n <= Len(calls[c].documentChunks) =>
                               stored[n] = calls[c].documentChunks[n]
                  /\ MapHas(vectorStore, d) => MapSize(vectorStore') = MapSize(vectorStore)
                  /\ ~MapHas(vectorStore, d) => MapSize(vectorStore') = MapSize(vectorStore) + 1
                  /\ \A d2 \in DocIds \ {d} :
                        /\ MapHas(vectorStore', d2) = MapHas(vectorStore, d2)
                        /\ MapHas(vectorStore, d2) =>
                               MapGet(vectorStore', d2) = MapGet(vectorStore, d2)]_vars

\* a successful ingestion has replaced the stored list of its document
C4_Witness ==
    /\ lastReturn.op = "processDocument"
    /\ lastReturn.success
    /\ lastReturn.replaced
    /\ MapHas(vectorStore, lastReturn.blobId)
    /\ Len(MapGet(vectorStore, lastReturn.blobId)) = lastReturn.chunksCreated

\* C5: deleteDocument(d) removes d's entry and returns the number of chunks it
\* held, with success = true; when d is absent it returns 0 and leaves the store
\* unchanged; d is absent afterwards, and a deleteDocument(d) that comes right
\* after a deleteDocument(d) has returned gives 0; no other entry changes.
C5_DeleteIdempotent ==
    [][\A d \in DocIds :
          deleteDocument(d) =>
              /\ lastReturn'.success
              /\ lastReturn'.deletedChunks =
                     (IF MapHas(vectorStore, d) THEN Len(MapGet(vectorStore, d)) ELSE 0)
              /\ ~MapHas(vectorStore, d) => (vectorStore' = vectorStore /\ lastReturn'.deletedChunks = 0)
              /\ ~MapHas(vectorStore', d)
              /\ DocumentStats(vectorStore', d).totalChunks = 0
              /\ (lastReturn.op = "deleteDocument" /\ lastReturn.blobId = d) =>
                     lastReturn'.deletedChunks = 0
              /\ \A d2 \in DocIds \ {d} :
                    /\ MapHas(vectorStore', d2) = MapHas(vectorStore, d2)
                    /\ MapHas(vectorStore, d2) =>
                           MapGet(vectorStore', d2) = MapGet(vectorStore, d2)]_vars

\* a deleteDocument has removed a stored chunk list
C5_Witness ==
    /\ lastReturn.op = "deleteDocument"
    /\ lastReturn.deletedChunks >= 1
    /\ ~MapHas(vectorStore, lastReturn.blobId)

\* C9: processDocument never stays in the chunking loop: a configuration with
\* chunkSize <= chunkOverlap is rejected before splitIntoChunks is entered, and
\* splitIntoChunks returns for every other one.
C9_ChunkingLoopEnds ==
    \A c \in Calls :
        /\ calls[c].pc # "splitting"
        /\ calls[c].pc = "embed" => chunkSize > chunkOverlap

----------------------------------------------------------------------------
(* splitIntoChunks applied to every text, size and overlap within the bounds,
   and to the 2500-character text under the default configuration. A text is
   the sequence of its character positions, so every character is distinct. *)

TextOfLength(n) == [j \in 1..n |-> j]

ScenarioText == TextOfLength(2500)

Frozen ==
    /\ available = TRUE
    /\ topK = DefaultTopK
    /\ vectorStore = << >>
    /\ calls = [c \in Calls |-> IdleCall]
    /\ query = IdleQuery
    /\ lastReturn = NoReturn
    /\ nOps = 0

SplitInit ==
    /\ Frozen
    /\ out = NoArg
    /\ \/ \E n \in 0..MaxTextLen, size \in 1..MaxChunkSize :
             \E overlap \in 0..(size - 1) :
                /\ chunkSize = size
                /\ chunkOverlap = overlap
                /\ arg = [fn |-> "splitIntoChunks", text |-> TextOfLength(n)]
       \/ /\ chunkSize = DefaultChunkSize
          /\ chunkOverlap = DefaultChunkOverlap
          /\ arg = [fn |-> "splitIntoChunks", text |-> ScenarioText]

ApplySplit ==
    /\ arg.fn = "splitIntoChunks"
    /\ out = NoArg
    /\ LET split == splitIntoChunks(arg.text, chunkSize, chunkOverlap)
       IN  out' = [fn |-> "splitIntoChunks", chunks |-> split.chunks,
                   returned |-> split.returned]
    /\ UNCHANGED <<available, chunkSize, chunkOverlap, topK, vectorStore, calls,
                   query, lastReturn, nOps, arg>>

SplitNext == ApplySplit

SplitSpec == SplitInit /\ [][SplitNext]_vars

CeilDiv(a, b) == (a + b - 1) \div b

Range(seq) == {seq[j] : j \in 1..Len(seq)}

\* the number of characters two chunks of a text of distinct characters share
Shared(a, b) == Cardinality(Range(a) \cap Range(b))

\* the chunks joined, each but the first without its first `overlap` characters
RECURSIVE JoinChunks(_, _)
JoinChunks(chunks, overlap) ==
    IF Len(chunks) = 0 THEN << >>
    ELSE IF Len(chunks) = 1 THEN chunks[1]
    ELSE LET front == SubSeq(chunks, 1, Len(chunks) - 1)
             last  == chunks[Len(chunks)]
         IN  JoinChunks(front, overlap) \o SubSeq(last, overlap + 1, Len(last))

SplitDone == out.fn = "splitIntoChunks"

\* C6: for a text of length L > S, the number of chunks is
\* ceil((L - O) / (S - O)).
C6_ChunkCount ==
    SplitDone /\ Len(arg.text) > chunkSize =>
        /\ out.returned
        /\ Len(out.chunks) = CeilDiv(Len(arg.text) - chunkOverlap, chunkSize - chunkOverlap)

\* what the loop gives instead: one chunk for every start below L
C6_CountByStarts ==
    SplitDone /\ Len(arg.text) > 0 =>
        Len(out.chunks) = CeilDiv(Len(arg.text), chunkSize - chunkOverlap)

\* C7: for a non-empty text of length L <= S, splitIntoChunks returns exactly
\* one chunk, the whole text.
C7_ShortTextOneChunk ==
    SplitDone /\ Len(arg.text) > 0 /\ Len(arg.text) <= chunkSize =>
        out.chunks = <<arg.text>>

C8_Windows ==
    \A n \in 1..Len(out.chunks) :
        LET start == (n - 1) * (chunkSize - chunkOverlap)
        IN  /\ out.chunks[n] = SubSeq(arg.text, start + 1,
                                      Min(start + chunkSize, Len(arg.text)))
            /\ Len(out.chunks[n]) <= chunkSize

C8_PairsShareOverlap ==
    \A n \in 1..(Len(out.chunks) - 2) :
        Shared(out.chunks[n], out.chunks[n + 1]) = chunkOverlap

C8_EndsAndJoins ==
    /\ Len(out.chunks) > 0
    /\ LET last == out.chunks[Len(out.chunks)]
       IN  Len(last) > 0 /\ last[Len(last)] = Len(arg.text)
    /\ JoinChunks(out.chunks, chunkOverlap) = arg.text

C8_Scenario ==
    arg.text = ScenarioText /\ chunkSize = DefaultChunkSize
                            /\ chunkOverlap = DefaultChunkOverlap =>
        /\ Len(out.chunks) = 4
        /\ \A n \in 1..Len(out.chunks) : Len(out.chunks[n]) <= DefaultChunkSize

\* C8: for a text of length L > 0, chunk i is the slice from i*(S-O) to
\* min(i*(S-O)+S, L), every chunk has at most S characters, every pair of
\* consecutive chunks but the final pair shares exactly O characters, the last
\* chunk ends at L, the chunks joined without the overlaps give the text, and
\* L = 2500, S = 1000, O = 200 gives 4 chunks.
C8_SlidingWindows ==
    SplitDone /\ Len(arg.text) > 0 =>
        /\ out.returned
        /\ C8_Windows
        /\ C8_PairsShareOverlap
        /\ C8_EndsAndJoins
        /\ C8_Scenario

----------------------------------------------------------------------------
(* The ranking of queryDocuments applied to every list of candidates with
   scores from RankScores, within the bounds, and every positive topK. *)

MaxCandidates == 3
MaxTopK == 4
RankScores == {50, 80, 90}

Candidate(j, score) ==
    [chunkIndex |-> j - 1, text |-> <<"a">>, embedding |-> <<1, 0>>,
     metadata |-> [metadata |-> "m1", filename |-> "a.txt", blobId |-> "d1"],
     score |-> score]

RankInit ==
    /\ Frozen
    /\ chunkSize = DefaultChunkSize
    /\ chunkOverlap = DefaultChunkOverlap
    /\ out = NoArg
    /\ \E n \in 1..MaxCandidates, k \in 1..MaxTopK :
          \E scores \in [1..n -> RankScores] :
             arg = [fn |-> "rank", topK |-> k,
                    scoredChunks |-> [j \in 1..n |-> Candidate(j, scores[j])]]

ApplyRank ==
    /\ arg.fn = "rank"
    /\ out = NoArg
    /\ LET topChunks == TopChunks(arg.scoredChunks, arg.topK)
       IN  out' = [fn |-> "rank", topChunks |-> topChunks, sources |-> Sources(topChunks)]
    /\ UNCHANGED <<available, chunkSize, chunkOverlap, topK, vectorStore, calls,
                   query, lastReturn, nOps, arg>>

RankNext == ApplyRank

RankSpec == RankInit /\ [][RankNext]_vars

RankDone == out.fn = "rank"

\* the candidate a source was made from: its place in the gathering order
Place(source) == source.chunkIndex + 1

\* C10: the sources are ordered by non-increasing score, candidates of equal
\* score keep the order in which they were gathered, there are min(k, n) of
\* them, and they are the k highest-scoring candidates; scores
\* [0.9, 0.5, 0.8] with k = 2 give [0.9, 0.8].
C10_TopKDescendingStable ==
    RankDone =>
        LET sources == out.sources
            given   == arg.scoredChunks
            n       == Len(given)
            chosen  == {Place(sources[j]) : j \in 1..Len(sources)}
        IN  /\ Len(sources) = Min(arg.topK, n)
            /\ \A j \in 1..Len(sources) :
                  /\ Place(sources[j]) \in 1..n
                  /\ sources[j].score = given[Place(sources[j])].score
            /\ Cardinality(chosen) = Len(sources)
            /\ \A i, j \in 1..Len(sources) :
                  i < j =>
                      \/ sources[i].score > sources[j].score
                      \/ /\ sources[i].score = sources[j].score
                         /\ Place(sources[i]) < Place(sources[j])
            /\ \A x \in (1..n) \ chosen, y \in chosen :
                  \/ given[x].score < given[y].score
                  \/ given[x].score = given[y].score /\ x > y
            /\ ([j \in 1..n |-> given[j].score] = <<90, 50, 80>> /\ arg.topK = 2 =>
                   [j \in 1..Len(sources) |-> sources[j].score] = <<90, 80>>)

\* three candidates, two of them with the same score, ranked and cut to two
C10_Witness ==
    /\ RankDone
    /\ Len(arg.scoredChunks) = 3
    /\ arg.topK = 2
    /\ arg.scoredChunks[1].score = 80
    /\ arg.scoredChunks[2].score = 90
    /\ arg.scoredChunks[3].score = 80
    /\ Len(out.sources) = 2

----------------------------------------------------------------------------
(* queryDocuments from the await of the question's embedding on, against every
   store of one or two documents ingested under the default configuration,
   with every documentIds argument, topK and embedding of the question. *)

\* the lengths of the documents' texts
QueryTextLengths == {3, ExcerptLen, ExcerptLen + 1, DefaultChunkSize}

TextChars(n) ==
    [j \in 1..n |-> IF j = ExcerptLen THEN "x"
                    ELSE IF j = ExcerptLen + 1 THEN "y" ELSE "a"]

\* the list processDocument stores for a text, every chunk with one embedding
StoredList(blobId, text, embedding) ==
    LET chunks == splitIntoChunks(text, DefaultChunkSize, DefaultChunkOverlap).chunks
    IN  [n \in 1..Len(chunks) |->
            ChunkRecord([i |-> n - 1, chunks |-> chunks, metadata |-> "m1",
                         filename |-> "a.txt", blobId |-> blobId], embedding)]

StoredLists(blobId) ==
    {StoredList(blobId, TextChars(n), e) : n \in QueryTextLengths, e \in Embeddings}

\* the stores with entries for `keys`, inserted in that order
StoresOver(keys) ==
    IF Len(keys) = 0 THEN {<< >>}
    ELSE IF Len(keys) = 1
    THEN {<<[key |-> keys[1], value |-> l]>> : l \in StoredLists(keys[1])}
    ELSE {<<[key |-> keys[1], value |-> l1], [key |-> keys[2], value |-> l2]>> :
             l1 \in StoredLists(keys[1]), l2 \in StoredLists(keys[2])}

QueryStores ==
    UNION {StoresOver(keys) :
              keys \in {<< >>, <<"d1">>, <<"d2">>, <<"d1", "d2">>, <<"d2", "d1">>}}

\* What the provider can return for the question: a vector as long as the
\* stored ones, a shorter one and a longer one.
QueryQuestionEmbeddings == {<<1, 0>>, <<1>>, <<1, 0, 0>>}

QueryInit ==
    /\ available = TRUE
    /\ chunkSize = DefaultChunkSize
    /\ chunkOverlap = DefaultChunkOverlap
    /\ topK = DefaultTopK
    /\ vectorStore \in QueryStores
    /\ calls = [c \in Calls |-> IdleCall]
    /\ \E ids \in DocumentIdLists \cup {NullIds}, k \in QueryTopKs :
          query = [IdleQuery EXCEPT !.pc = "embed", !.documentIds = ids,
                                    !.topK = IF k = 0 THEN topK ELSE k]
    /\ lastReturn = NoReturn
    /\ nOps = 1
    /\ arg = NoArg
    /\ out = NoArg

QueryNext ==
    \/ \E e \in QueryQuestionEmbeddings : QuestionEmbedded(e)
    \/ QuestionEmbeddingFailed
    \/ \E a \in Answers : Completed(a)
    \/ CompletionFailed

QuerySpec == QueryInit /\ [][QueryNext]_vars

\* every chunk stored under a key of `keys` is among the candidates
AllChunksOf(keys, store, candidates) ==
    \A j \in 1..Len(store) :
        store[j].key \in keys =>
            \A n \in 1..Len(store[j].value) :
                \E m \in 1..Len(candidates) : candidates[m] = store[j].value[n]

\* the candidates and the sources of a query with a list come from the listed
\* documents only; the candidates of a query without one are all the chunks
CandidatesFollowFilter(isFilter) ==
    query.pc = "complete" =>
        IF isFilter
        THEN \A m \in 1..Len(query.allChunks) :
                 /\ query.allChunks[m].metadata.blobId \in Range(query.documentIds.ids)
                 /\ \E j \in 1..Len(vectorStore) :
                        /\ vectorStore[j].key \in Range(query.documentIds.ids)
                        /\ \E n \in 1..Len(vectorStore[j].value) :
                               vectorStore[j].value[n] = query.allChunks[m]
        ELSE AllChunksOf(DocIds, vectorStore, query.allChunks)

SourcesFollowFilter(isFilter) ==
    \A a \in Answers :
        Completed(a) /\ isFilter =>
            /\ Len(lastReturn'.sources) > 0
            /\ \A j \in 1..Len(lastReturn'.sources) :
                  lastReturn'.sources[j].blobId \in Range(query.documentIds.ids)

C13_MismatchAborts ==
    [][\A e \in QueryQuestionEmbeddings :
          /\ QuestionEmbedded(e)
          /\ \E m \in 1..Len(AllChunks(vectorStore, query.documentIds)) :
                 Len(AllChunks(vectorStore, query.documentIds)[m].embedding) # Len(e)
          => /\ lastReturn'.op = "queryDocuments"
             /\ lastReturn'.threw
             /\ query'.pc = "idle"]_vars

\* the excerpt is the first ExcerptLen characters of the text, followed by an
\* ellipsis exactly when the text is longer
IsExcerptOf(excerpt, text) ==
    IF Len(text) > ExcerptLen
    THEN /\ Len(excerpt) = ExcerptLen + 3
         /\ SubSeq(excerpt, 1, ExcerptLen) = SubSeq(text, 1, ExcerptLen)
         /\ SubSeq(excerpt, ExcerptLen + 1, ExcerptLen + 3) = <<".", ".", ".">>
    ELSE excerpt = text

\* C15: a query with at least one candidate returns one source per ranked chunk
\* in rank order: source N carries the key the chunk is stored under, the
\* chunk's index and its similarity to the question, and its excerpt is taken
\* from the text labelled [Source N] in the prompt, cut to 200 characters with
\* an ellipsis exactly when the text is longer.
C15_SourcesDescribeRankedChunks ==
    [][\A a \in Answers :
          Completed(a) =>
              LET ranked  == query.topChunks
                  context == Context(ranked)
                  sources == lastReturn'.sources
              IN  /\ Len(query.allChunks) >= 1
                  /\ Len(sources) = Len(ranked)
                  /\ Len(sources) = Min(query.topK, Len(query.allChunks))
                  /\ Len(context) = Len(sources)
                  /\ \A n \in 1..Len(sources) :
                        /\ context[n].label = n
                        /\ MapHas(vectorStore, sources[n].blobId)
                        /\ LET list == MapGet(vectorStore, sources[n].blobId)
                               i    == sources[n].chunkIndex
                           IN  /\ i \in 0..(Len(list) - 1)
                               /\ list[i + 1].chunkIndex = i
                               /\ list[i + 1].text = context[n].text
                               /\ sources[n].score =
                                      cosineSimilarity(query.questionEmbedding,
                                                       list[i + 1].embedding)
                        /\ sources[n].chunkIndex = ranked[n].chunkIndex
                        /\ sources[n].score = ranked[n].score
                        /\ IsExcerptOf(sources[n].excerpt, context[n].text)]_vars

\* a query has returned a source of a 200-character chunk and a source of a
\* longer one
C15_Witness ==
    /\ lastReturn.op = "queryDocuments"
    /\ ~lastReturn.threw
    /\ \E j \in 1..Len(lastReturn.sources) :
          Len(lastReturn.sources[j].excerpt) = ExcerptLen
    /\ \E j \in 1..Len(lastReturn.sources) :
          /\ Len(lastReturn.sources[j].excerpt) = ExcerptLen + 3
          /\ lastReturn.sources[j].excerpt[ExcerptLen] = "x"
          /\ lastReturn.sources[j].excerpt[ExcerptLen + 1] = "."

----------------------------------------------------------------------------
(* The query and the ingestion in the service, under every interleaving *)

\* the store holds no chunk the query's documentIds let it search
NoCandidates ==
    IF ~query.documentIds.null /\ Len(query.documentIds.ids) > 0
    THEN \A d \in Range(query.documentIds.ids) :
             ~MapHas(vectorStore, d) \/ Len(MapGet(vectorStore, d)) = 0
    ELSE \A j \in 1..Len(vectorStore) : Len(vectorStore[j].value) = 0

\* C12: when the question's embedding arrives and the query has zero
\* candidates (empty store, or a filter naming only absent ids), queryDocuments
\* returns the canned no-documents answer with an empty source list, throws
\* nothing and sends no completion request.
C12_NoCandidatesCannedAnswer ==
    [][(\E e \in QuestionEmbeddings : QuestionEmbedded(e)) /\ NoCandidates =>
          /\ lastReturn' = [op |-> "queryDocuments", threw |-> FALSE,
                            answer |-> NoDocumentsAnswer, sources |-> << >>]
          /\ query'.pc = "idle"
          /\ query'.pc # "complete"]_vars

\* a query whose filter names only an absent document has returned the canned
\* answer while the store holds another document
C12_Witness ==
    /\ lastReturn.op = "queryDocuments"
    /\ ~lastReturn.threw
    /\ lastReturn.answer = NoDocumentsAnswer
    /\ lastReturn.sources = << >>
    /\ Len(vectorStore) > 0
    /\ query.pc = "idle"

\* C14: when the service is not available, queryDocuments throws and
\* processDocument returns success = false with chunksCreated = 0; no call is
\* ever waiting for an extraction, an embedding or a completion, and the store
\* stays as it was (empty).
C14_UnavailableFailsFast ==
    ~available =>
        /\ vectorStore = << >>
        /\ \A c \in Calls : calls[c].pc = "idle"
        /\ query.pc = "idle"
        /\ lastReturn.op = "processDocument" =>
               /\ lastReturn.success = FALSE
               /\ lastReturn.chunksCreated = 0
               /\ lastReturn.embedded = 0
               /\ lastReturn.error = "RAG Service not available"
        /\ lastReturn.op = "queryDocuments" =>
               /\ lastReturn.threw
               /\ lastReturn.error = "RAG Service not available"

\* processDocument has returned from a service that is not available, after
\* another operation
C14_Witness ==
    /\ ~available
    /\ nOps >= 2
    /\ lastReturn.op = "processDocument"
    /\ lastReturn.error = "RAG Service not available"

\* the chunks of document d among the candidates, in the order gathered
ChunksOf(candidates, d) ==
    LET IsOfDocument(chunk) == chunk.metadata.blobId = d
    IN  SelectSeq(candidates, IsOfDocument)

GatheredWholeLists ==
    query.pc = "complete" =>
        \A d \in DocIds :
            \/ ChunksOf(query.allChunks, d) = << >>
            \/ FullChunkList(d, ChunksOf(query.allChunks, d))

GathersWhatIsStored ==
    (\E e \in QuestionEmbeddings : QuestionEmbedded(e)) /\ query'.pc = "complete" =>
        \A d \in DocIds :
            ChunksOf(query'.allChunks, d) =
                IF MapHas(vectorStore, d) /\ Searched(query.documentIds, d)
                THEN MapGet(vectorStore, d) ELSE << >>

\* C16: under every interleaving of processDocument calls with queries, the
\* chunks of a document d that a query gathers and scores are a whole chunk
\* list: the one the store holds for d when the query gathers, which is the
\* list of the last ingestion of d that committed, never the chunks a call in
\* flight has embedded so far.
C16_QueryGathersWholeLists ==
    []GatheredWholeLists /\ [][GathersWhatIsStored]_vars

\* a query has gathered the chunks of a document that a processDocument call,
\* one chunk embedded so far, is ingesting again
C16_Witness ==
    /\ query.pc = "complete"
    /\ \E c \in Calls :
          /\ calls[c].pc = "embed"
          /\ calls[c].i >= 1
          /\ MapHas(vectorStore, calls[c].blobId)
          /\ ChunksOf(query.allChunks, calls[c].blobId) # << >>

\* window i of a text: the slice from i * (size - overlap), of at most size
\* characters
Window(text, i) ==
    SubSeq(text, i * (chunkSize - chunkOverlap) + 1,
           Min(i * (chunkSize - chunkOverlap) + chunkSize, Len(text)))

IndicesInListOrder ==
    \A j \in 1..Len(vectorStore) :
        /\ \A n \in 1..Len(vectorStore[j].value) :
              vectorStore[j].value[n].chunkIndex = n - 1
        /\ \E t \in Texts :
              \A n \in 1..Len(vectorStore[j].value) :
                  vectorStore[j].value[n].text = Window(t, n - 1)

CommitsWindowsInTextOrder ==
    \A c \in Calls :
        SuccessReturn(c) =>
            LET stored == MapGet(vectorStore', calls[c].blobId)
            IN  /\ Len(stored) >= 1
                /\ \A n \in 1..Len(stored) :
                      /\ stored[n].chunkIndex = n - 1
                      /\ stored[n].text = Window(calls[c].text, n - 1)

\* C18: in every reachable state the chunk list of every stored document has
\* the chunkIndex values 0, 1, ..., n-1 in list order, and the chunk with index
\* i holds window i of the text of the ingestion that stored the list.
C18_IndicesInTextOrder ==
    []IndicesInListOrder /\ [][CommitsWindowsInTextOrder]_vars

\* a document of two chunks is stored
C18_Witness ==
    \E j \in 1..Len(vectorStore) :
        /\ Len(vectorStore[j].value) = 2
        /\ vectorStore[j].value[2].chunkIndex = 1
        /\ vectorStore[j].value[1].text # vectorStore[j].value[2].text

NoEmptyListNoEmptyChunk ==
    /\ \A j \in 1..Len(vectorStore) :
          /\ Len(vectorStore[j].value) >= 1
          /\ \A n \in 1..Len(vectorStore[j].value) :
                Len(vectorStore[j].value[n].text) >= 1
    /\ \A d \in DocIds :
          DocumentStats(vectorStore, d).exists
              <=> DocumentStats(vectorStore, d).totalChunks >= 1

BlankTextFails ==
    \A c \in Calls, t \in Texts :
        Extracted(c, t) /\ (Len(t) = 0 \/ IsBlank(t)) =>
            /\ lastReturn'.op = "processDocument"
            /\ lastReturn'.call = c
            /\ lastReturn'.success = FALSE
            /\ lastReturn'.chunksCreated = 0
            /\ calls'[c].pc = "idle"
            /\ vectorStore' = vectorStore

\* C19: in every reachable state every stored document id maps to a non-empty
\* chunk list and every stored chunk has a text of at least one character, so
\* getDocumentStats(d).exists holds exactly when d has at least one chunk; an
\* ingestion whose extracted text is empty or whitespace-only returns
\* success = false and stores nothing.
C19_NoEmptyDocuments ==
    []NoEmptyListNoEmptyChunk /\ [][BlankTextFails]_vars

\* the ingestion of a document has failed on blank text, the document is not
\* stored and another one is
C19_Witness ==
    /\ lastReturn.op = "processDocument"
    /\ lastReturn.error = "No text content extracted"
    /\ ~MapHas(vectorStore, lastReturn.blobId)
    /\ Len(vectorStore) >= 1

\* a step of queryDocuments, getDocumentStats or getStoreStats
ReadStep ==
    \/ \E ids \in DocumentIdLists, k \in QueryTopKs : queryDocuments(ids, k)
    \/ \E e \in QuestionEmbeddings : QuestionEmbedded(e)
    \/ QuestionEmbeddingFailed
    \/ \E a \in Answers : Completed(a)
    \/ CompletionFailed
    \/ \E d \in DocIds : getDocumentStats(d)
    \/ getStoreStats

\* C20: no step of queryDocuments, getDocumentStats or getStoreStats, returning
\* or throwing, changes the vector store: its keys and every stored chunk's
\* fields stay as they are; a step that changes the store is a step of
\* processDocument or of deleteDocument.
C20_ReadsLeaveStore ==
    /\ [][ReadStep => vectorStore' = vectorStore]_vars
    /\ [][vectorStore' # vectorStore =>
             \/ \E c \in Calls : IngestStep(c)
             \/ \E d \in DocIds : deleteDocument(d)]_vars

\* a query has scored and ranked the chunks of a stored document
C20_Witness ==
    /\ query.pc = "complete"
    /\ Len(query.topChunks) >= 1
    /\ query.topChunks[1].score = 100
    /\ Len(vectorStore) >= 1

----------------------------------------------------------------------------
(* The service with the scheduling of the event loop: an extraction settles,
   and the embedding request of a processDocument call is answered or
   rejected; the requests of the query may stay unanswered for ever. *)

ExtractionSettles(c) == \E t \in Texts \cup {ExtractThrows} : Extracted(c, t)

EmbeddingSettles(c) == (\E e \in Embeddings : Embedded(c, e)) \/ EmbeddingFailed(c)

FairSpec ==
    /\ Init
    /\ [][Next]_vars
    /\ \A c \in Calls : WF_vars(ExtractionSettles(c))
    /\ \A c \in Calls : WF_vars(EmbeddingSettles(c))

\* C17: while the queryDocuments call is suspended on a provider call that
\* does not return, a processDocument call whose own provider calls return
\* runs to completion: whenever both are in flight, the processDocument call
\* returns or the query's request is answered.
C17_HungCallBlocksNothing ==
    (query.pc # "idle" /\ calls[1].pc # "idle")
        ~> (calls[1].pc = "idle" \/ query.pc = "idle")

----------------------------------------------------------------------------
(* The service from the return of deleteDocument(DeletedDoc), which ran while
   a processDocument call for the same document was awaiting extractText. No
   processDocument call for that document starts afterwards; every other
   operation does. *)

DeletedDoc == "d1"

AfterDeleteInit ==
    /\ available = TRUE
    /\ \E cfg \in Configs : chunkSize = cfg[1] /\ chunkOverlap = cfg[2]
    /\ topK = DefaultTopK
    /\ vectorStore = << >>
    /\ \E f \in Filenames, m \in Metas :
          calls = [c \in Calls |->
                      IF c = 1
                      THEN [IdleCall EXCEPT !.pc = "extract", !.blobId = DeletedDoc,
                                            !.filename = f, !.metadata = m]
                      ELSE IdleCall]
    /\ query = IdleQuery
    /\ lastReturn = [op |-> "deleteDocument", blobId |-> DeletedDoc,
                     success |-> TRUE, deletedChunks |-> 0]
    /\ nOps = 2
    /\ arg = NoArg
    /\ out = NoArg

AfterDeleteNext ==
    \/ \E c \in Calls, d \in DocIds \ {DeletedDoc}, f \in Filenames, m \in Metas :
           ProcessDocument(c, d, f, m)
    \/ \E c \in Calls, t \in Texts \cup {ExtractThrows} : Extracted(c, t)
    \/ \E c \in Calls, e \in Embeddings : Embedded(c, e)
    \/ \E c \in Calls : EmbeddingFailed(c)
    \/ \E d \in DocIds : deleteDocument(d)
    \/ \E d \in DocIds : getDocumentStats(d)
    \/ getStoreStats
    \/ \E ids \in DocumentIdLists, k \in QueryTopKs : queryDocuments(ids, k)
    \/ \E e \in QuestionEmbeddings : QuestionEmbedded(e)
    \/ QuestionEmbeddingFailed
    \/ \E a \in Answers : Completed(a)
    \/ CompletionFailed

AfterDeleteSpec == AfterDeleteInit /\ [][AfterDeleteNext]_vars

\* C21: once deleteDocument(d) has returned, d stays absent from the store
\* (getDocumentStats(d).exists = false) as long as no processDocument(d, ...)
\* call started after the delete has committed: the ingestion of d that was in
\* flight when the delete ran does not bring d back.
C21_DeletedStaysAbsent ==
    /\ ~MapHas(vectorStore, DeletedDoc)
    /\ DocumentStats(vectorStore, DeletedDoc).exists = FALSE

====
